---------------------------- MODULE Spec2Model ----------------------------
(***************************************************************************)
(* Model of the two scripts of the repository:                             *)
(*   add_border.py  - add_border(input_path, output_path, border_ratio)    *)
(*   merge_json.py  - concatenates data1, data2, data3 and dumps them as   *)
(*                    JSON to public/scene.json                            *)
(* Each script is a straight-line program; its position is a program       *)
(* counter (bpc for add_border, mpc for the merge script).  Library calls  *)
(* (Image.open, ImageOps.expand, Image.save, open, json.dump, print) are   *)
(* steps that either complete or raise.                                    *)
(***************************************************************************)
EXTENDS Integers, Sequences, FiniteSets

VARIABLES
    bpc,            \* add_border: statement about to run
    inFile,         \* the file at input_path
    border_ratio,   \* argument border_ratio, a ratio num/den (den = 0: float inf)
    outFile,        \* the file at output_path
    outFile0,       \* the file at output_path when add_border was called
    img,            \* local img (size of the opened image)
    border_width,   \* local border_width
    border_height,  \* local border_height
    img_with_border,\* local img_with_border (size of the expanded image)
    ratio,          \* local ratio, the quotient num/den
    bound,          \* names of add_border's locals that have been assigned
    saved,          \* img_with_border.save returned without raising
    handlerFailed,  \* the print of the except clause raised
    mpc,            \* merge script: statement about to run
    data1,          \* part1.data1
    data2,          \* part2.data2
    data3,          \* part3.data3
    full_data,      \* module global full_data
    scene,          \* the file public/scene.json
    scene0,         \* the file public/scene.json when the script started
    dumpIdx,        \* number of elements json.dump has written so far
    stdout,         \* lines printed so far
    handles,        \* open file handles
    raisedAt,       \* statement at which the first exception was raised
    raisedCls,      \* class of that exception
    exitStatus      \* -1 while running, then the process's exit status

vars == <<bpc, inFile, border_ratio, outFile, outFile0, img, border_width,
          border_height, img_with_border, ratio, bound, saved, handlerFailed,
          mpc, data1, data2, data3, full_data, scene, scene0, dumpIdx,
          stdout, handles, raisedAt, raisedCls, exitStatus>>

borderVars == <<bpc, inFile, border_ratio, outFile, outFile0, img, border_width,
                border_height, img_with_border, ratio, bound, saved, handlerFailed>>

mergeVars == <<mpc, data1, data2, data3, full_data, scene, scene0, dumpIdx>>

-----------------------------------------------------------------------------
(* Bounds *)

MaxDim == 3        \* image widths and heights are 1..MaxDim
MaxNum == 6        \* border ratios are n/4 for n in -1..MaxNum, and inf
MaxTotal == 3      \* len(data1) + len(data2) + len(data3) <= MaxTotal
MaxOld == 2        \* a pre-existing scene.json holds 0..MaxOld elements

-----------------------------------------------------------------------------
(* Values *)

NoImg == [w |-> 0, h |-> 0]

Absent == [state |-> "absent", w |-> 0, h |-> 0]

Partial == [state |-> "partial", w |-> 0, h |-> 0]

ImageFile(size) == [state |-> "image", w |-> size.w, h |-> size.h]

Inf == [num |-> 1, den |-> 0]

Ratios == {[num |-> n, den |-> 4] : n \in -1..MaxNum} \cup {Inf}

NoScene == [exists |-> FALSE, elems |-> <<>>, complete |-> FALSE]

Line(kind, a, b) == [kind |-> kind, a |-> a, b |-> b]


-----------------------------------------------------------------------------
(* Python semantics used by add_border *)

\* Exception classes raised by the steps; KeyboardInterrupt derives from
\* BaseException only, the others from Exception.
PyException == {"OSError", "OverflowError", "MemoryError"}

\* Variant: except OSError as e:
CatchesOSError(cls) == cls = "OSError"

\* except Exception as e:
Catches(cls) == cls \in PyException

\* img.width * border_ratio: an int times a float, as the quotient num/den.
\* The ratios of the model are multiples of 1/4, whose products with small
\* ints are exact in binary floating point.
Mul(dim, r) == [num |-> dim * r.num, den |-> r.den]

\* int(x) of a finite float: truncation toward zero.
PyInt(q) ==
    IF q.num >= 0 THEN q.num \div q.den ELSE -((-q.num) \div q.den)

\* Variant: round(img.width * border_ratio), rounding halves up.
BorderSizeRound(dim, r) == (2 * dim * r.num + r.den) \div (2 * r.den)

\* int(img.width * border_ratio), int(img.height * border_ratio)
BorderSize(dim, r) == PyInt(Mul(dim, r))

\* ImageOps.expand(img, border=(border_width, border_height)): a 2-tuple is
\* (left = right, top = bottom); the new size is (left + w + right, top + h + bottom).
ExpandSize(size, bw, bh) == [w |-> bw + size.w + bw, h |-> bh + size.h + bh]

\* Variant: (img.width + 2 * border_width) // img.width, floor division.
RatioFloorDiv(w, bw) == [num |-> (w + 2 * bw) \div w, den |-> 1]

\* (img.width + 2 * border_width) / img.width: true division, a quotient.
Ratio(w, bw) == [num |-> w + 2 * bw, den |-> w]

\* Variant: the image is saved before the border is computed.
SuccSaveFirst(pc) ==
    CASE pc = "open"         -> "expand"
      [] pc = "expand"       -> "save"
      [] pc = "save"         -> "saveWrite"
      [] pc = "saveWrite"    -> "calc"
      [] pc = "calc"         -> "printCreated"
      [] pc = "printCreated" -> "ratio"
      [] pc = "ratio"        -> "printRatio"
      [] pc = "printRatio"   -> "returned"

\* Variant: the 'Created' line is printed before the image is saved.
SuccPrintFirst(pc) ==
    CASE pc = "open"         -> "calc"
      [] pc = "calc"         -> "expand"
      [] pc = "expand"       -> "printCreated"
      [] pc = "printCreated" -> "save"
      [] pc = "save"         -> "saveWrite"
      [] pc = "saveWrite"    -> "ratio"
      [] pc = "ratio"        -> "printRatio"
      [] pc = "printRatio"   -> "returned"

\* The order of the statements of the try block.
Succ(pc) ==
    CASE pc = "open"         -> "calc"
      [] pc = "calc"         -> "expand"
      [] pc = "expand"       -> "save"
      [] pc = "save"         -> "saveWrite"
      [] pc = "saveWrite"    -> "printCreated"
      [] pc = "printCreated" -> "ratio"
      [] pc = "ratio"        -> "printRatio"
      [] pc = "printRatio"   -> "returned"

TryBlock == {"open", "calc", "expand", "save", "saveWrite", "printCreated",
             "ratio", "printRatio"}

-----------------------------------------------------------------------------
(* add_border *)

InitBorder ==
    /\ bpc = "open"
    /\ inFile \in {[exists |-> FALSE, w |-> 0, h |-> 0, keepsFp |-> FALSE]}
                  \cup {[exists |-> TRUE, w |-> w, h |-> h, keepsFp |-> k] :
                           w \in 1..MaxDim, h \in 1..MaxDim, k \in BOOLEAN}
    /\ border_ratio \in Ratios
    /\ outFile \in {Absent, ImageFile([w |-> 1, h |-> 1])}
    /\ outFile0 = outFile
    /\ img = NoImg
    /\ border_width = 0
    /\ border_height = 0
    /\ img_with_border = NoImg
    /\ ratio = [num |-> 0, den |-> 1]
    /\ bound = {}
    /\ saved = FALSE
    /\ handlerFailed = FALSE
    /\ mpc = "idle"
    /\ data1 = <<>>
    /\ data2 = <<>>
    /\ data3 = <<>>
    /\ full_data = <<>>
    /\ scene = NoScene
    /\ scene0 = scene
    /\ dumpIdx = 0
    /\ stdout = <<>>
    /\ handles = {}
    /\ raisedAt = "none"
    /\ raisedCls = "none"
    /\ exitStatus = -1

\* An exception of class cls raised by the statement at bpc, inside the try.
Raise(cls) ==
    /\ raisedAt' = bpc
    /\ raisedCls' = cls
    /\ bpc' = IF Catches(cls) THEN "handler" ELSE "escaped"

\* img = Image.open(input_path): the file is opened and its header read; the
\* handle stays with img.
OpenOk ==
    /\ bpc = "open"
    /\ inFile.exists
    /\ img' = [w |-> inFile.w, h |-> inFile.h]
    /\ bound' = bound \cup {"img"}
    /\ handles' = handles \cup {"input"}
    /\ bpc' = Succ(bpc)
    /\ UNCHANGED <<inFile, border_ratio, outFile, outFile0, border_width,
                   border_height, img_with_border, ratio, saved, handlerFailed,
                   stdout, raisedAt, raisedCls, exitStatus>>
    /\ UNCHANGED mergeVars

\* Image.open raises: no such file, or a file that is no image.
OpenFail ==
    /\ bpc = "open"
    /\ Raise("OSError")
    /\ UNCHANGED <<inFile, border_ratio, outFile, outFile0, img, border_width,
                   border_height, img_with_border, ratio, bound, saved,
                   handlerFailed, stdout, handles, exitStatus>>
    /\ UNCHANGED mergeVars

\* border_width = int(img.width * border_ratio)
\* border_height = int(img.height * border_ratio)
CalcOk ==
    /\ bpc = "calc"
    /\ border_ratio.den # 0
    /\ border_width' = BorderSize(img.w, border_ratio)
    /\ border_height' = BorderSize(img.h, border_ratio)
    /\ bound' = bound \cup {"border_width", "border_height"}
    /\ bpc' = Succ(bpc)
    /\ UNCHANGED <<inFile, border_ratio, outFile, outFile0, img,
                   img_with_border, ratio, saved, handlerFailed,
                   stdout, handles, raisedAt, raisedCls, exitStatus>>
    /\ UNCHANGED mergeVars

\* int(inf) raises OverflowError.
CalcFail ==
    /\ bpc = "calc"
    /\ border_ratio.den = 0
    /\ Raise("OverflowError")
    /\ UNCHANGED <<inFile, border_ratio, outFile, outFile0, img, border_width,
                   border_height, img_with_border, ratio, bound, saved,
                   handlerFailed, stdout, handles, exitStatus>>
    /\ UNCHANGED mergeVars

\* img_with_border = ImageOps.expand(...): pastes img, which loads its pixel
\* data; the image plugin then closes the input file unless it keeps its file
\* open after loading (inFile.keepsFp).
ExpandOk ==
    /\ bpc = "expand"
    /\ img_with_border' = ExpandSize(img, border_width, border_height)
    /\ bound' = bound \cup {"img_with_border"}
    /\ handles' = IF inFile.keepsFp THEN handles ELSE handles \ {"input"}
    /\ bpc' = Succ(bpc)
    /\ UNCHANGED <<inFile, border_ratio, outFile, outFile0, img, border_width,
                   border_height, ratio, saved, handlerFailed,
                   stdout, raisedAt, raisedCls, exitStatus>>
    /\ UNCHANGED mergeVars

\* ImageOps.expand raises (the new image cannot be allocated).
ExpandFail ==
    /\ bpc = "expand"
    /\ Raise("MemoryError")
    /\ UNCHANGED <<inFile, border_ratio, outFile, outFile0, img, border_width,
                   border_height, img_with_border, ratio, bound, saved,
                   handlerFailed, stdout, handles, exitStatus>>
    /\ UNCHANGED mergeVars

\* img_with_border.save(output_path), first part: the output file is opened
\* for writing, which creates or truncates it.
SaveOpenOk ==
    /\ bpc = "save"
    /\ outFile' = Partial
    /\ handles' = handles \cup {"output"}
    /\ bpc' = Succ(bpc)
    /\ UNCHANGED <<inFile, border_ratio, outFile0, img, border_width,
                   border_height, img_with_border, ratio, bound, saved,
                   handlerFailed, stdout, raisedAt, raisedCls, exitStatus>>
    /\ UNCHANGED mergeVars

\* save raises before the output file is opened (unknown extension, no
\* permission).
SaveOpenFail ==
    /\ bpc = "save"
    /\ Raise("OSError")
    /\ UNCHANGED <<inFile, border_ratio, outFile, outFile0, img, border_width,
                   border_height, img_with_border, ratio, bound, saved,
                   handlerFailed, stdout, handles, exitStatus>>
    /\ UNCHANGED mergeVars

\* save, second part: the image is encoded and written, the file closed.
SaveWriteOk ==
    /\ bpc = "saveWrite"
    /\ outFile' = ImageFile(img_with_border)
    /\ handles' = handles \ {"output"}
    /\ saved' = TRUE
    /\ bpc' = Succ(bpc)
    /\ UNCHANGED <<inFile, border_ratio, outFile0, img, border_width,
                   border_height, img_with_border, ratio, bound,
                   handlerFailed, stdout, raisedAt, raisedCls, exitStatus>>
    /\ UNCHANGED mergeVars

\* save raises while writing: the file is closed and is left partial or removed.
SaveWriteFail ==
    /\ bpc = "saveWrite"
    /\ outFile' \in {Partial, Absent}
    /\ handles' = handles \ {"output"}
    /\ Raise("OSError")
    /\ UNCHANGED <<inFile, border_ratio, outFile0, img, border_width,
                   border_height, img_with_border, ratio, bound, saved,
                   handlerFailed, stdout, exitStatus>>
    /\ UNCHANGED mergeVars

\* print(f"Created {output_path} with size {img_with_border.size}")
PrintCreatedOk ==
    /\ bpc = "printCreated"
    /\ stdout' = Append(stdout, Line("Created", img_with_border.w, img_with_border.h))
    /\ bpc' = Succ(bpc)
    /\ UNCHANGED <<inFile, border_ratio, outFile, outFile0, img, border_width,
                   border_height, img_with_border, ratio, bound, saved,
                   handlerFailed, handles, raisedAt, raisedCls, exitStatus>>
    /\ UNCHANGED mergeVars

\* The print raises, before anything was written (the text cannot be encoded)
\* or after the line went out (the flush fails).
PrintCreatedFail ==
    /\ bpc = "printCreated"
    /\ \E emitted \in BOOLEAN :
          stdout' = IF emitted
                    THEN Append(stdout, Line("Created", img_with_border.w, img_with_border.h))
                    ELSE stdout
    /\ Raise("OSError")
    /\ UNCHANGED <<inFile, border_ratio, outFile, outFile0, img, border_width,
                   border_height, img_with_border, ratio, bound, saved,
                   handlerFailed, handles, exitStatus>>
    /\ UNCHANGED mergeVars

\* ratio = (img.width + 2 * border_width) / img.width
CalcRatio ==
    /\ bpc = "ratio"
    /\ ratio' = Ratio(img.w, border_width)
    /\ bound' = bound \cup {"ratio"}
    /\ bpc' = Succ(bpc)
    /\ UNCHANGED <<inFile, border_ratio, outFile, outFile0, img, border_width,
                   border_height, img_with_border, saved, handlerFailed,
                   stdout, handles, raisedAt, raisedCls, exitStatus>>
    /\ UNCHANGED mergeVars

\* print(f"Width Ratio: {ratio}"), the last statement: the function returns
\* and its locals, img with its file among them, are released.
PrintRatioOk ==
    /\ bpc = "printRatio"
    /\ stdout' = Append(stdout, Line("WidthRatio", ratio.num, ratio.den))
    /\ bpc' = Succ(bpc)
    /\ handles' = IF Succ(bpc) = "returned" THEN {} ELSE handles
    /\ UNCHANGED <<inFile, border_ratio, outFile, outFile0, img, border_width,
                   border_height, img_with_border, ratio, bound, saved,
                   handlerFailed, raisedAt, raisedCls, exitStatus>>
    /\ UNCHANGED mergeVars

PrintRatioFail ==
    /\ bpc = "printRatio"
    /\ \E emitted \in BOOLEAN :
          stdout' = IF emitted
                    THEN Append(stdout, Line("WidthRatio", ratio.num, ratio.den))
                    ELSE stdout
    /\ Raise("OSError")
    /\ UNCHANGED <<inFile, border_ratio, outFile, outFile0, img, border_width,
                   border_height, img_with_border, ratio, bound, saved,
                   handlerFailed, handles, exitStatus>>
    /\ UNCHANGED mergeVars

\* except Exception as e: print(f"Error: {e}"), then the function returns.
HandlerOk ==
    /\ bpc = "handler"
    /\ stdout' = Append(stdout, Line("Error", 0, 0))
    /\ bpc' = "returned"
    /\ handles' = {}
    /\ UNCHANGED <<inFile, border_ratio, outFile, outFile0, img, border_width,
                   border_height, img_with_border, ratio, bound, saved,
                   handlerFailed, raisedAt, raisedCls, exitStatus>>
    /\ UNCHANGED mergeVars

\* The print of the except clause raises: nothing encloses it, so the
\* exception leaves add_border.
HandlerFail ==
    /\ bpc = "handler"
    /\ \E emitted \in BOOLEAN :
          stdout' = IF emitted THEN Append(stdout, Line("Error", 0, 0)) ELSE stdout
    /\ handlerFailed' = TRUE
    /\ bpc' = "escaped"
    /\ UNCHANGED <<inFile, border_ratio, outFile, outFile0, img, border_width,
                   border_height, img_with_border, ratio, bound, saved,
                   handles, raisedAt, raisedCls, exitStatus>>
    /\ UNCHANGED mergeVars

\* KeyboardInterrupt while a statement of the try block runs: not an
\* Exception, so the except clause does not apply.
Interrupt ==
    /\ bpc \in TryBlock
    /\ Raise("KeyboardInterrupt")
    /\ outFile' = IF bpc = "saveWrite" THEN Partial ELSE outFile
    /\ handles' = handles \ {"output"}
    /\ UNCHANGED <<inFile, border_ratio, outFile0, img, border_width,
                   border_height, img_with_border, ratio, bound, saved,
                   handlerFailed, stdout, exitStatus>>
    /\ UNCHANGED mergeVars

\* if __name__ == "__main__": the call is the program's last statement.
\* A normal return ends the process with status 0, an escaped exception
\* with a traceback and status 1.
BorderExit ==
    /\ bpc \in {"returned", "escaped"}
    /\ exitStatus' = IF bpc = "returned" THEN 0 ELSE 1
    /\ handles' = {}
    /\ bpc' = "exited"
    /\ UNCHANGED <<inFile, border_ratio, outFile, outFile0, img, border_width,
                   border_height, img_with_border, ratio, bound, saved,
                   handlerFailed, stdout, raisedAt, raisedCls>>
    /\ UNCHANGED mergeVars

NextBorder ==
    \/ OpenOk \/ OpenFail
    \/ CalcOk \/ CalcFail
    \/ ExpandOk \/ ExpandFail
    \/ SaveOpenOk \/ SaveOpenFail
    \/ SaveWriteOk \/ SaveWriteFail
    \/ PrintCreatedOk \/ PrintCreatedFail
    \/ CalcRatio
    \/ PrintRatioOk \/ PrintRatioFail
    \/ HandlerOk \/ HandlerFail
    \/ Interrupt
    \/ BorderExit

SpecBorder == InitBorder /\ [][NextBorder]_vars

-----------------------------------------------------------------------------
(* Python semantics used by the merge script *)

\* The records the data modules may hold, as Python values:
\*   {"id": n}   a dict with a string key
\*   {1: 1}      a dict with an int key
\*   (1,)        a tuple
\*   {1}         a set
Records ==
    {[t |-> "dict", kt |-> "str", k |-> "id", v |-> n] : n \in 1..3}
    \cup {[t |-> "dict", kt |-> "int", k |-> "1", v |-> 1],
          [t |-> "tuple", kt |-> "none", k |-> "", v |-> 1],
          [t |-> "set", kt |-> "none", k |-> "", v |-> 1]}

SeqsUpTo(n) == UNION {[1..k -> Records] : k \in 0..n}

\* An element of a scene.json written by an earlier run.
OldElem == [t |-> "object", k |-> "old", v |-> 0]

OldScene(n) == [exists |-> TRUE, elems |-> [i \in 1..n |-> OldElem], complete |-> TRUE]

\* Variant: data2 + data1 + data3
ConcatSwapped(d1, d2, d3) == d2 \o d1 \o d3

\* data1 + data2 + data3
Concat(d1, d2, d3) == (d1 \o d2) \o d3

\* Variant: open('public/scene.json', 'a') keeps what the file holds.
OpenAppend(f) == [exists |-> TRUE, elems |-> f.elems, complete |-> FALSE]

\* open('public/scene.json', 'w'): the file is created, or truncated to nothing.
OpenW(f) == [exists |-> TRUE, elems |-> <<>>, complete |-> FALSE]

\* What json.dump can serialize: dicts, lists and tuples (of such values and
\* of strings and numbers); a set raises TypeError.
Serializable(x) == x.t \in {"dict", "list", "tuple"}

\* json.dump's encoding of one element: a dict becomes an object whose keys
\* are strings (an int key is written as its digits), a list or a tuple
\* becomes an array.
Encode(x) ==
    IF x.t = "dict"
    THEN [t |-> "object", k |-> x.k, v |-> x.v]
    ELSE [t |-> "array", k |-> "", v |-> x.v]

\* Variant: len(data1)
CountFirst(d) == Len(data1)

\* len(full_data)
Count(d) == Len(d)

\* Variant: the exception is swallowed and the script goes on to its print.
Swallowed == "print"

\* No statement of the script is inside a try: an exception ends the script.
Unhandled == "crashed"

-----------------------------------------------------------------------------
(* merge_json.py *)

InitMerge ==
    /\ mpc = "load"
    /\ data1 \in SeqsUpTo(MaxTotal)
    /\ data2 \in SeqsUpTo(MaxTotal - Len(data1))
    /\ data3 \in SeqsUpTo(MaxTotal - Len(data1) - Len(data2))
    /\ full_data = <<>>
    /\ scene \in {NoScene} \cup {OldScene(n) : n \in 0..MaxOld}
    /\ scene0 = scene
    /\ dumpIdx = 0
    /\ stdout = <<>>
    /\ handles = {}
    /\ raisedAt = "none"
    /\ raisedCls = "none"
    /\ exitStatus = -1
    /\ bpc = "idle"
    /\ inFile = [exists |-> FALSE, w |-> 0, h |-> 0, keepsFp |-> FALSE]
    /\ border_ratio = [num |-> 0, den |-> 4]
    /\ outFile = Absent
    /\ outFile0 = Absent
    /\ img = NoImg
    /\ border_width = 0
    /\ border_height = 0
    /\ img_with_border = NoImg
    /\ ratio = [num |-> 0, den |-> 1]
    /\ bound = {}
    /\ saved = FALSE
    /\ handlerFailed = FALSE

\* An exception of class cls raised by the statement at mpc.
Crash(cls) ==
    /\ raisedAt' = mpc
    /\ raisedCls' = cls
    /\ mpc' = Unhandled

\* from part1 import data1; from part2 import data2; from part3 import data3
LoadOk ==
    /\ mpc = "load"
    /\ mpc' = "concat"
    /\ UNCHANGED <<data1, data2, data3, full_data, scene, scene0, dumpIdx,
                   stdout, handles, raisedAt, raisedCls, exitStatus>>
    /\ UNCHANGED borderVars

\* An import raises (a data module is missing or broken).
LoadFail ==
    /\ mpc = "load"
    /\ Crash("ImportError")
    /\ UNCHANGED <<data1, data2, data3, full_data, scene, scene0, dumpIdx,
                   stdout, handles, exitStatus>>
    /\ UNCHANGED borderVars

\* full_data = data1 + data2 + data3
ConcatOk ==
    /\ mpc = "concat"
    /\ full_data' = Concat(data1, data2, data3)
    /\ mpc' = "open"
    /\ UNCHANGED <<data1, data2, data3, scene, scene0, dumpIdx,
                   stdout, handles, raisedAt, raisedCls, exitStatus>>
    /\ UNCHANGED borderVars

\* The concatenation raises (the new list cannot be allocated).
ConcatFail ==
    /\ mpc = "concat"
    /\ Crash("MemoryError")
    /\ UNCHANGED <<data1, data2, data3, full_data, scene, scene0, dumpIdx,
                   stdout, handles, exitStatus>>
    /\ UNCHANGED borderVars

\* with open('public/scene.json', 'w') as f:
OpenSceneOk ==
    /\ mpc = "open"
    /\ scene' = OpenW(scene)
    /\ handles' = handles \cup {"scene"}
    /\ dumpIdx' = 0
    /\ mpc' = "dump"
    /\ UNCHANGED <<data1, data2, data3, full_data, scene0,
                   stdout, raisedAt, raisedCls, exitStatus>>
    /\ UNCHANGED borderVars

\* open raises (no directory public/, no permission): the file is untouched.
OpenSceneFail ==
    /\ mpc = "open"
    /\ Crash("OSError")
    /\ UNCHANGED <<data1, data2, data3, full_data, scene, scene0, dumpIdx,
                   stdout, handles, exitStatus>>
    /\ UNCHANGED borderVars

\* json.dump(full_data, f, indent=2) writes the document piece by piece:
\* the next element.
DumpElem ==
    /\ mpc = "dump"
    /\ dumpIdx < Len(full_data)
    /\ Serializable(full_data[dumpIdx + 1])
    /\ scene' = [scene EXCEPT !.elems = Append(@, Encode(full_data[dumpIdx + 1]))]
    /\ dumpIdx' = dumpIdx + 1
    /\ UNCHANGED <<mpc, data1, data2, data3, full_data, scene0,
                   stdout, handles, raisedAt, raisedCls, exitStatus>>
    /\ UNCHANGED borderVars

\* json.dump reaches an element it cannot serialize: TypeError.  The with
\* statement closes the file, which keeps what was written so far.
DumpTypeError ==
    /\ mpc = "dump"
    /\ dumpIdx < Len(full_data)
    /\ ~Serializable(full_data[dumpIdx + 1])
    /\ handles' = handles \ {"scene"}
    /\ Crash("TypeError")
    /\ UNCHANGED <<data1, data2, data3, full_data, scene, scene0, dumpIdx,
                   stdout, exitStatus>>
    /\ UNCHANGED borderVars

\* json.dump has written every element: it writes the closing bracket.
DumpEnd ==
    /\ mpc = "dump"
    /\ dumpIdx = Len(full_data)
    /\ scene' = [scene EXCEPT !.complete = TRUE]
    /\ mpc' = "close"
    /\ UNCHANGED <<data1, data2, data3, full_data, scene0, dumpIdx,
                   stdout, handles, raisedAt, raisedCls, exitStatus>>
    /\ UNCHANGED borderVars

\* A write, or the flush at the end of the with block, raises OSError: the
\* with statement closes the file, which is left incomplete.
WriteFail ==
    /\ mpc \in {"dump", "close"}
    /\ scene' = [scene EXCEPT !.complete = FALSE]
    /\ handles' = handles \ {"scene"}
    /\ Crash("OSError")
    /\ UNCHANGED <<data1, data2, data3, full_data, scene0, dumpIdx,
                   stdout, exitStatus>>
    /\ UNCHANGED borderVars

\* The end of the with block: the file is flushed and closed.
CloseScene ==
    /\ mpc = "close"
    /\ handles' = handles \ {"scene"}
    /\ mpc' = "print"
    /\ UNCHANGED <<data1, data2, data3, full_data, scene, scene0, dumpIdx,
                   stdout, raisedAt, raisedCls, exitStatus>>
    /\ UNCHANGED borderVars

\* print(f"Successfully merged {len(full_data)} objects into public/scene.json")
PrintMergedOk ==
    /\ mpc = "print"
    /\ stdout' = Append(stdout, Line("Merged", Count(full_data), 0))
    /\ mpc' = "done"
    /\ UNCHANGED <<data1, data2, data3, full_data, scene, scene0, dumpIdx,
                   handles, raisedAt, raisedCls, exitStatus>>
    /\ UNCHANGED borderVars

\* The print raises: the files are written, the script ends with a traceback.
PrintMergedFail ==
    /\ mpc = "print"
    /\ Crash("OSError")
    /\ UNCHANGED <<data1, data2, data3, full_data, scene, scene0, dumpIdx,
                   stdout, handles, exitStatus>>
    /\ UNCHANGED borderVars

\* The end of the script: status 0, or a traceback and status 1 after an
\* exception.
MergeExit ==
    /\ mpc \in {"done", "crashed"}
    /\ exitStatus' = IF mpc = "done" THEN 0 ELSE 1
    /\ mpc' = "exited"
    /\ UNCHANGED <<data1, data2, data3, full_data, scene, scene0, dumpIdx,
                   stdout, handles, raisedAt, raisedCls>>
    /\ UNCHANGED borderVars

NextMerge ==
    \/ LoadOk \/ LoadFail
    \/ ConcatOk \/ ConcatFail
    \/ OpenSceneOk \/ OpenSceneFail
    \/ DumpElem \/ DumpTypeError \/ DumpEnd
    \/ WriteFail
    \/ CloseScene
    \/ PrintMergedOk \/ PrintMergedFail
    \/ MergeExit

SpecMerge == InitMerge /\ [][NextMerge]_vars

-----------------------------------------------------------------------------
(* Properties of add_border *)

Kinds(lines) == [i \in 1..Len(lines) |-> lines[i].kind]

HasLine(kind) == \E i \in 1..Len(stdout) : stdout[i].kind = kind

\* C1: after a successful save with border_ratio = num/den >= 0, the written
\* image is w + 2*floor(w*r) wide and h + 2*floor(h*r) high, where (w, h) is
\* the size of the input image; for r = 0 it has the input's size.
ThmC1 ==
    (saved /\ border_ratio.num >= 0) =>
        /\ outFile.state = "image"
        /\ outFile.w = inFile.w + 2 * ((inFile.w * border_ratio.num) \div border_ratio.den)
        /\ outFile.h = inFile.h + 2 * ((inFile.h * border_ratio.num) \div border_ratio.den)
        /\ (border_ratio.num = 0 => outFile.w = inFile.w /\ outFile.h = inFile.h)

\* C1 witness: a saved image whose width product w*r is not an integer and
\* was floored to a positive border, with different borders on the two axes.
WitC1 ==
    /\ saved
    /\ border_ratio.num > 0
    /\ border_width > 0
    /\ border_width * border_ratio.den # inFile.w * border_ratio.num
    /\ border_width # border_height
    /\ outFile.w = inFile.w + 2 * border_width

OrigC8 == Cardinality(handles) <= 1

\* C9: the file at output_path changes only after img, border_width and
\* border_height have been assigned; if Image.open or the border computation
\* raised, the file is as it was at the call and no line other than the error
\* message has been printed.
ThmC9 ==
    /\ (outFile # outFile0) => ({"img", "border_width", "border_height"} \subseteq bound)
    /\ (raisedAt \in {"open", "calc"}) =>
          /\ outFile = outFile0
          /\ \A i \in 1..Len(stdout) : stdout[i].kind = "Error"

\* C9 witness: the border computation failed on an opened image while an
\* older output file existed; the error was printed and the call returned.
WitC9 ==
    /\ raisedAt = "calc"
    /\ "img" \in bound
    /\ bpc = "returned"
    /\ outFile0.state = "image"
    /\ outFile = outFile0
    /\ Kinds(stdout) = <<"Error">>

\* The orders of lines a call may print.
LineOrders ==
    { <<>>, <<"Created">>, <<"Created", "WidthRatio">>, <<"Error">>,
      <<"Created", "Error">>, <<"Created", "WidthRatio", "Error">> }

OrderC10 ==
    /\ Kinds(stdout) \in LineOrders
    /\ HasLine("Created") => (saved /\ raisedAt # "saveWrite" /\ raisedAt # "save")
    /\ (HasLine("WidthRatio") /\ HasLine("Error")) => raisedAt = "printRatio"

-----------------------------------------------------------------------------
(* Properties of the merge script *)

\* json.load's reading of one element: an object becomes a dict with string
\* keys, an array becomes a list.
Decode(j) ==
    IF j.t = "object"
    THEN [t |-> "dict", kt |-> "str", k |-> j.k, v |-> j.v]
    ELSE [t |-> "list", kt |-> "none", k |-> "", v |-> j.v]

\* The file parsed back as JSON (of a complete document).
Parsed(f) == [i \in 1..Len(f.elems) |-> Decode(f.elems[i])]

\* A record made of what JSON has: here, a dict with string keys.
JsonNative(x) == x.t = "dict" /\ x.kt = "str"

AllNative(d) == \A i \in 1..Len(d) : JsonNative(d[i])

Succeeded == mpc \in {"print", "done"} \/ (mpc = "exited" /\ exitStatus = 0)

\* C2: once merged, full_data has len(data1) + len(data2) + len(data3)
\* elements: those of data1 in order, then those of data2, then those of
\* data3, each unaltered; and the document json.dump completed holds the
\* encoding of each of them, in this order.
ThmC2 ==
    (mpc \in {"open", "dump", "close", "print", "done"}) =>
        /\ Len(full_data) = Len(data1) + Len(data2) + Len(data3)
        /\ \A i \in 1..Len(data1) : full_data[i] = data1[i]
        /\ \A i \in 1..Len(data2) : full_data[Len(data1) + i] = data2[i]
        /\ \A i \in 1..Len(data3) : full_data[Len(data1) + Len(data2) + i] = data3[i]
        /\ (scene.complete /\ mpc # "open") =>
              /\ Len(scene.elems) = Len(data1) + Len(data2) + Len(data3)
              /\ \A i \in 1..Len(full_data) : scene.elems[i] = Encode(full_data[i])

\* C2 witness: three non-empty inputs, data1 and data3 holding the same
\* record and data2 another one, merged and written.
WitC2 ==
    /\ mpc = "done"
    /\ Len(data1) = 1 /\ Len(data2) = 1 /\ Len(data3) = 1
    /\ data1[1] = data3[1]
    /\ data1[1] # data2[1]
    /\ Len(scene.elems) = 3

\* C4 as stated: after a successful run the file parsed back equals data1
\* followed by data2 followed by data3.
OrigC4 ==
    Succeeded =>
        /\ scene.exists /\ scene.complete
        /\ Parsed(scene) = data1 \o data2 \o data3

\* C4 amended: after a successful run, whatever the file held before, the
\* file is a complete document of len(data1) + len(data2) + len(data3)
\* elements; if every record is made of what JSON has (dicts with string
\* keys, no tuples), it parses back to data1 followed by data2 followed by
\* data3.
ThmC4 ==
    Succeeded =>
        /\ scene.exists /\ scene.complete
        /\ Len(Parsed(scene)) = Len(data1) + Len(data2) + Len(data3)
        /\ (AllNative(data1) /\ AllNative(data2) /\ AllNative(data3)) =>
               Parsed(scene) = data1 \o data2 \o data3

\* C4 witness: a successful run that replaced an older, longer file.
WitC4 ==
    /\ mpc = "done"
    /\ scene0.exists
    /\ Len(scene0.elems) > Len(scene.elems)
    /\ Len(scene.elems) >= 1
    /\ AllNative(full_data)
    /\ Parsed(scene) = data1 \o data2 \o data3

\* C6: the count of the printed message is the number of elements of the
\* file, len(data1) + len(data2) + len(data3), and when the message is
\* printed the file is complete and closed.
ThmC6 ==
    \A i \in 1..Len(stdout) :
        stdout[i].kind = "Merged" =>
            /\ stdout[i].a = Len(scene.elems)
            /\ stdout[i].a = Len(data1) + Len(data2) + Len(data3)
            /\ scene.exists /\ scene.complete
            /\ "scene" \notin handles

\* C6 witness: the inputs [{id:1}], [{id:2},{id:3}], [] and the count 3.
WitC6 ==
    /\ Len(data1) = 1 /\ Len(data2) = 2 /\ Len(data3) = 0
    /\ data1[1].v = 1 /\ data2[1].v = 2 /\ data2[2].v = 3
    /\ AllNative(data1) /\ AllNative(data2)
    /\ stdout = <<Line("Merged", 3, 0)>>

\* C7: an exception raised while loading, concatenating, opening, dumping
\* or closing ends the script: nothing runs after it, the success message is
\* not printed, and the exit status is 1.
ThmC7 ==
    (raisedAt \in {"load", "concat", "open", "dump", "close"}) =>
        /\ mpc \in {"crashed", "exited"}
        /\ ~HasLine("Merged")
        /\ exitStatus \in {-1, 1}
        /\ (mpc = "exited" => exitStatus = 1)

\* C7 witness: json.dump raised TypeError on a set after writing one
\* element; the script ended with status 1 and printed nothing.
WitC7 ==
    /\ raisedAt = "dump"
    /\ raisedCls = "TypeError"
    /\ dumpIdx = 1
    /\ mpc = "exited"
    /\ exitStatus = 1
    /\ stdout = <<>>

\* C8, merge script: at most the output file is open, and after the with
\* block, left normally or by an exception, no file is open.
MergeHandles ==
    /\ Cardinality(handles) <= 1
    /\ (mpc \in {"print", "done", "crashed", "exited"}) => handles = {}

=============================================================================
